---- MODULE Spec2Model ----
(***************************************************************************)
(* Model of the catalog query / presentation layer of eya20/hiring_test:   *)
(* the products and categories repositories (the store), the catalog       *)
(* service, and the catalog and categories HTTP handlers.                  *)
(*                                                                         *)
(* Decimals (shopspring decimal.Decimal) are records [coef, exp] standing  *)
(* for coef * 10^exp.  A float64 is modelled by the number of hundredths   *)
(* it holds, so that two decimals of different scale and the same value    *)
(* convert to the same float.  A Go error value is a record     *)
(* [msg, id]: msg is what Error() returns, id tells the gorm sentinel from *)
(* a value built by errors.New.                                            *)
(*                                                                         *)
(* Every handler is one step, but for the two paginated lists of the       *)
(* service, which read the store twice: the store's own writes to the      *)
(* products table may fall between the two reads.  The other handlers      *)
(* neither read nor write what a list in flight holds, so they are taken   *)
(* while no list is in flight.                                             *)
(***************************************************************************)
EXTENDS Integers, Sequences, FiniteSets, TLC

\* ---------------------------------------------------------------- bounds
MaxProducts == 2
MaxOffset == 1
MaxLimit == 2

\* ------------------------------------------------------------- constants
StatusOK == 200
StatusBadRequest == 400
StatusNotFound == 404
StatusConflict == 409
StatusInternalServerError == 500
StatusServiceUnavailable == 503

\* ---------------------------------------------------------------- errors
Nil == [msg |-> "", id |-> "nil"]
ErrorsNew(msg) == [msg |-> msg, id |-> "errors.New"]
ErrRecordNotFound == [msg |-> "record not found", id |-> "gorm.ErrRecordNotFound"]

ConnectionFailed == ErrorsNew("database connection failed")
OtherError == ErrorsNew("some other error")
UniqueSqlite == ErrorsNew("UNIQUE constraint failed: categories.code")
UniquePostgres == ErrorsNew("duplicate key value violates unique constraint")

\* failures a store call can end in whatever the rows are
FaultSignals == {ConnectionFailed, OtherError}
\* the failure a page read is made to end in: the service hands any failure
\* on unread, so one stands for all
PageFaultSignals == {ConnectionFailed}
\* failures the store surfaces for a lookup that matches no row
NotFoundSignals == {ErrRecordNotFound, ErrorsNew("record not found")}
\* failures the store surfaces for an insert that breaks categories.code UNIQUE
UniqueSignals == {UniqueSqlite, UniquePostgres}

\* --------------------------------------------------------------- decimals
Dec(c, e) == [coef |-> c, exp |-> e]
DecimalZero == Dec(0, 0)
Pow10(n) == CASE n = 0 -> 1 [] n = 1 -> 10 [] n = 2 -> 100 [] n = 3 -> 1000

IsZero(d) == d.coef = 0
InexactFloat64(d) == d.coef * Pow10(2 + d.exp)

\* ------------------------------------------------------------ store rows
ZeroCategory == [ID |-> 0, Code |-> "", Name |-> ""]

SeedCategories ==
  << [ID |-> 1, Code |-> "CATGORY001", Name |-> "Clothing"],
     [ID |-> 2, Code |-> "CATGORY002", Name |-> "Shoes"],
     [ID |-> 3, Code |-> "CATGORY003", Name |-> "Accessories"] >>

Var(name, sku, price) == [Name |-> name, SKU |-> sku, Price |-> price]

\* the product rows the store may hold; CategoryID 0 is a NULL category_id
ProductRows ==
  { [Code |-> "PROD001", Price |-> Dec(2999, -2), CategoryID |-> 1,
     Variants |-> << Var("Small", "PROD001-S", Dec(2999, -2)),
                     Var("Large", "PROD001-L", DecimalZero) >>],
    [Code |-> "PROD002", Price |-> Dec(30, 0), CategoryID |-> 2,
     Variants |-> << Var("Red", "PROD002-R", Dec(0, -2)),
                     Var("Blue", "PROD002-B", Dec(3499, -2)) >>],
    [Code |-> "PROD003", Price |-> Dec(4999, -2), CategoryID |-> 0,
     Variants |-> << >>],
    [Code |-> "prod001", Price |-> Dec(125, -1), CategoryID |-> 2,
     Variants |-> << Var("One", "prod001-1", Dec(3000, -2)) >>] }

\* byte-wise collation of the product codes in use
CodeOrder == << "PROD001", "PROD002", "PROD003", "UNKNOWN", "prod001" >>
CodeRank(code) == CHOOSE i \in 1..Len(CodeOrder) : CodeOrder[i] = code

\* ------------------------------------------------------------ input sets
RequestCodes == {"", "PROD001", "PROD002", "prod001", "UNKNOWN"}
CategoryFilters == {"", "Shoes", "CATGORY002"}
NilFloat == << >>
PriceFilters == {NilFloat, <<3000>>}
CreateCodes == {"", "CATGORY001", "CATGORY004"}
CreateNames == {"", "Electronics"}

Range(s) == {s[i] : i \in 1..Len(s)}
Min(a, b) == IF a < b THEN a ELSE b

\* ------------------------------------------------------------- variables
VARIABLES
  products,    \* the products table, in the order the store scans it
  categories,  \* the categories table, in insertion order
  pg,          \* the paginated list in flight between its two store reads
  resp         \* the outcome of the last completed operation

vars == << products, categories, pg, resp >>

\* ------------------------------------------------- products repository
CategoryOf(row, cats) ==
  IF \E c \in Range(cats) : c.ID = row.CategoryID
  THEN CHOOSE c \in Range(cats) : c.ID = row.CategoryID
  ELSE ZeroCategory

\* Preload("Category").Preload("Variants") of one row
Preload(row, cats) ==
  [Code |-> row.Code, Price |-> row.Price,
   Category |-> CategoryOf(row, cats), Variants |-> row.Variants]

PreloadAll(rows, cats) == [i \in 1..Len(rows) |-> Preload(rows[i], cats)]

PaginateSkipsOneMore(rows, offset, limit) ==
  SubSeq(rows, offset + 2, Min(offset + 1 + limit, Len(rows)))
PaginateOverLimit(rows, offset, limit) ==
  SubSeq(rows, offset + 1, Min(offset + limit + 1, Len(rows)))
\* Offset(offset).Limit(limit)
Paginate(rows, offset, limit) ==
  SubSeq(rows, offset + 1, Min(offset + limit, Len(rows)))

GetAllProducts(tbl, cats) == PreloadAll(tbl, cats)

GetProductsPaginated(tbl, cats, offset, limit) ==
  PreloadAll(Paginate(tbl, offset, limit), cats)

GetProductsCount(tbl) == Len(tbl)

DecimalValue(d) == d.coef * Pow10(2 + d.exp)

CategoryMatchesByCode(row, cats, category) ==
  \E c \in Range(cats) : c.ID = row.CategoryID /\ c.Code = category
\* JOIN categories ON products.category_id = categories.id
\* WHERE categories.name = ?
CategoryMatches(row, cats, category) ==
  \E c \in Range(cats) : c.ID = row.CategoryID /\ c.Name = category

PriceMatchesInclusive(row, priceLt) == DecimalValue(row.Price) <= priceLt[1]
\* WHERE products.price < ?
PriceMatches(row, priceLt) == DecimalValue(row.Price) < priceLt[1]

RowMatches(row, cats, category, priceLt) ==
  /\ category # "" => CategoryMatches(row, cats, category)
  /\ priceLt # NilFloat => PriceMatches(row, priceLt)

FilterRows(tbl, cats, category, priceLt) ==
  SelectSeq(tbl, LAMBDA row : RowMatches(row, cats, category, priceLt))

RECURSIVE InsertByCode(_, _)
InsertByCode(row, sorted) ==
  IF sorted = << >> THEN << row >>
  ELSE IF CodeRank(row.Code) < CodeRank(Head(sorted).Code)
       THEN << row >> \o sorted
       ELSE << Head(sorted) >> \o InsertByCode(row, Tail(sorted))

OrderByCodeUnordered(rows) == rows
RECURSIVE OrderByCode(_)
\* Order("products.code ASC")
OrderByCode(rows) ==
  IF rows = << >> THEN << >>
  ELSE InsertByCode(Head(rows), OrderByCode(Tail(rows)))

GetProductsPaginatedWithFilters(tbl, cats, offset, limit, category, priceLt) ==
  PreloadAll(Paginate(OrderByCode(FilterRows(tbl, cats, category, priceLt)),
                      offset, limit), cats)

GetProductsCountIgnoringPrice(tbl, cats, category, priceLt) ==
  Len(FilterRows(tbl, cats, category, NilFloat))
GetProductsCountWithFilters(tbl, cats, category, priceLt) ==
  Len(FilterRows(tbl, cats, category, priceLt))

AfterSelectDropsRow(tbl) == IF tbl = << >> THEN tbl ELSE Tail(tbl)
\* the table after a Find, First or Count: the queries select, none writes
AfterSelect(tbl) == tbl

\* Where("code = ?", code).First(product): the matching rows, first one taken
RowsByCode(tbl, code) == SelectSeq(tbl, LAMBDA row : row.Code = code)

\* ------------------------------------------------ categories repository
GetAllCategories(cats) == cats

CodeTakenNever(cats, code) == FALSE
\* categories.code is UNIQUE: an insert of a code in the table is refused
CodeTaken(cats, code) == \E c \in Range(cats) : c.Code = code

InsertCategoryOverwrite(cats, code, name) ==
  [cats EXCEPT ![1] = [ID |-> 1, Code |-> code, Name |-> name]]
\* db.Create(category): the row gets the next serial id
InsertCategory(cats, code, name) ==
  Append(cats, [ID |-> Len(cats) + 1, Code |-> code, Name |-> name])

\* ------------------------------------------------------ catalog service
\* Product{Code: p.Code, Price: p.Price.InexactFloat64(), Category: p.Category.Name}
ToAPIProduct(p) ==
  [Code |-> p.Code, Price |-> InexactFloat64(p.Price), Category |-> p.Category.Name]

MapProducts(dbProducts) ==
  [i \in 1..Len(dbProducts) |-> ToAPIProduct(dbProducts[i])]

EffectivePriceNoInherit(dbProduct, v) == InexactFloat64(v.Price)
\* the variant's price if it is set, the product's price otherwise
EffectivePrice(dbProduct, v) ==
  IF ~IsZero(v.Price) THEN InexactFloat64(v.Price)
  ELSE InexactFloat64(dbProduct.Price)

MapVariantsReversed(dbProduct) ==
  [i \in 1..Len(dbProduct.Variants) |->
     LET v == dbProduct.Variants[Len(dbProduct.Variants) + 1 - i]
     IN [Name |-> v.Name, SKU |-> v.SKU, Price |-> EffectivePrice(dbProduct, v)]]
MapVariants(dbProduct) ==
  [i \in 1..Len(dbProduct.Variants) |->
     [Name |-> dbProduct.Variants[i].Name,
      SKU |-> dbProduct.Variants[i].SKU,
      Price |-> EffectivePrice(dbProduct, dbProduct.Variants[i])]]

ZeroDetails == [Code |-> "", Price |-> 0, Category |-> "", Variants |-> << >>]

ToProductDetails(dbProduct) ==
  [Code |-> dbProduct.Code, Price |-> InexactFloat64(dbProduct.Price),
   Category |-> dbProduct.Category.Name, Variants |-> MapVariants(dbProduct)]

\* ------------------------------------------------- failure classification
ClassifyCatalogErrorAsInternal(err) == StatusInternalServerError
\* CatalogHandler.GetCatalog
ClassifyCatalogError(err) ==
  IF err.msg = "database connection failed" THEN StatusServiceUnavailable
  ELSE StatusInternalServerError

ClassifyDetailsErrorNoNotFound(err) ==
  IF err.msg = "database connection failed" THEN StatusServiceUnavailable
  ELSE StatusInternalServerError
\* CatalogHandler.GetProductDetails
ClassifyDetailsError(err) ==
  IF err = ErrRecordNotFound THEN StatusNotFound
  ELSE IF err.msg = "database connection failed" THEN StatusServiceUnavailable
  ELSE StatusInternalServerError

\* CategoriesHandler.GetCategories
ClassifyCategoriesError(err) ==
  IF err.msg = "database connection failed" THEN StatusServiceUnavailable
  ELSE StatusInternalServerError

ClassifyCreateErrorOneShape(err) ==
  IF err.msg = "database connection failed" THEN StatusServiceUnavailable
  ELSE IF err.msg = "UNIQUE constraint failed: categories.code"
       THEN StatusConflict
  ELSE StatusInternalServerError
\* CategoriesHandler.CreateCategory
ClassifyCreateError(err) ==
  IF err.msg = "database connection failed" THEN StatusServiceUnavailable
  ELSE IF \/ err.msg = "UNIQUE constraint failed: categories.code"
          \/ err.msg = "duplicate key value violates unique constraint"
       THEN StatusConflict
  ELSE StatusInternalServerError

ValidateCreateNameFirst(code, name) ==
  IF name = "" THEN "Name is required"
  ELSE IF code = "" THEN "Code is required"
  ELSE ""
ValidateCreateNoName(code, name) ==
  IF code = "" THEN "Code is required" ELSE ""
\* the required-field checks of CreateCategory; "" when the request is valid
ValidateCreate(code, name) ==
  IF code = "" THEN "Code is required"
  ELSE IF name = "" THEN "Name is required"
  ELSE ""

ReturnsOnErrorNever(err) == FALSE
\* if err != nil { return nil, 0, err }: the service stops at a failed read
ReturnsOnError(err) == err # Nil

ListResultSwallow(dbProducts, total, err) ==
  [products |-> MapProducts(dbProducts), total |-> 0, err |-> Nil]
\* what a paginated list returns once the count read has come back
ListResult(dbProducts, total, err) ==
  IF err # Nil THEN [products |-> << >>, total |-> 0, err |-> err]
  ELSE [products |-> MapProducts(dbProducts), total |-> total, err |-> Nil]

\* --------------------------------------------------------------- outcomes
ZeroIn ==
  [code |-> "", name |-> "", json |-> TRUE, offset |-> 0, limit |-> 0,
   category |-> "", priceLt |-> NilFloat]

\* fault is the failure the store raised (Nil if none), failedAt the place in
\* calls of the store call that failed (0 if none)
Outcome(op, status, err, message, in, calls) ==
  [op |-> op, status |-> status, err |-> err, message |-> message,
   in |-> in, calls |-> calls, products |-> << >>, total |-> 0,
   details |-> ZeroDetails, category |-> ZeroCategory, categories |-> << >>,
   stored |-> << >>, dup |-> FALSE, changed |-> FALSE,
   fault |-> Nil, failedAt |-> 0]

\* the outcome of an operation whose only store call failed
Failed(op, status, err, message, in, calls) ==
  [Outcome(op, status, err, message, in, calls)
     EXCEPT !.fault = err, !.failedAt = Len(calls)]

NoResp == Outcome("none", 0, Nil, "", ZeroIn, << >>)

Idle ==
  [pc |-> "idle", filtered |-> FALSE, in |-> ZeroIn, page |-> << >>,
   changed |-> FALSE, err |-> Nil]

\* a store write touches the rows a list in flight has already read
Touched == IF pg.pc = "count" THEN [pg EXCEPT !.changed = TRUE] ELSE pg

\* GetProducts: an empty result is an empty list, never a failure
GetProductsDropLast(dbProducts) ==
  IF Len(dbProducts) = 0 THEN << >>
  ELSE MapProducts(SubSeq(dbProducts, 1, Len(dbProducts) - 1))
GetProducts(dbProducts) ==
  IF Len(dbProducts) = 0 THEN << >> ELSE MapProducts(dbProducts)

\* ------------------------------------------------------------------ Init
Init ==
  /\ products = << >>
  /\ categories = SeedCategories
  /\ pg = Idle
  /\ resp = NoResp

\* ------------------------------------------------- writes made by the store
StoreInsertProduct(row) ==
  /\ Len(products) < MaxProducts
  /\ \A i \in 1..Len(products) : products[i].Code # row.Code
  /\ products' = Append(products, row)
  /\ pg' = Touched
  /\ resp' = NoResp
  /\ UNCHANGED categories

StoreDeleteProduct(i) ==
  /\ i \in 1..Len(products)
  /\ products' = SubSeq(products, 1, i - 1) \o SubSeq(products, i + 1, Len(products))
  /\ pg' = Touched
  /\ resp' = NoResp
  /\ UNCHANGED categories

\* ------------------------------------------------------- catalog handlers
GetCatalog ==
  \E fault \in {Nil} \cup FaultSignals :
    LET dbProducts == GetAllProducts(products, categories)
        list == GetProducts(dbProducts)
        calls == << "GetAllProducts" >>
    IN /\ pg.pc = "idle"
       /\ resp' =
            IF fault # Nil
            THEN Failed("GetCatalog", ClassifyCatalogError(fault), fault,
                        IF ClassifyCatalogError(fault) = StatusServiceUnavailable
                        THEN "Database service is temporarily unavailable: "
                        ELSE "Unable to retrieve products at this time: ",
                        ZeroIn, calls)
            ELSE [Outcome("GetCatalog", StatusOK, Nil, "", ZeroIn, calls)
                    EXCEPT !.products = list, !.total = Len(list),
                           !.stored = dbProducts]
       /\ products' = AfterSelect(products)
       /\ UNCHANGED << categories, pg >>

DetailsMessage(status) ==
  CASE status = StatusNotFound -> "Product not found"
    [] status = StatusServiceUnavailable ->
         "Database service is temporarily unavailable: "
    [] OTHER -> "Unable to retrieve product: "

GetProductDetails(code) ==
  LET in == [ZeroIn EXCEPT !.code = code]
      rows == RowsByCode(products, code)
      calls == << "GetProductByCode" >>
  IN /\ pg.pc = "idle"
     /\ \/ /\ code = ""
           /\ resp' = Outcome("GetProductDetails", StatusBadRequest, Nil,
                              "Product code is required", in, << >>)
           /\ UNCHANGED products
        \/ /\ code # ""
           /\ \E err \in FaultSignals \cup
                         (IF rows = << >> THEN NotFoundSignals ELSE {Nil}) :
                resp' =
                  IF err # Nil
                  THEN Failed("GetProductDetails", ClassifyDetailsError(err),
                              err, DetailsMessage(ClassifyDetailsError(err)),
                              in, calls)
                  ELSE LET dbProduct == Preload(Head(rows), categories)
                       IN [Outcome("GetProductDetails", StatusOK, Nil, "", in,
                                   calls)
                             EXCEPT !.details = ToProductDetails(dbProduct),
                                    !.stored = << dbProduct >>]
           /\ products' = AfterSelect(products)
     /\ UNCHANGED << categories, pg >>

\* ---------------------------------------------------- categories handlers
ToAPICategory(c) == [ID |-> 0, Code |-> c.Code, Name |-> c.Name]

GetCategories ==
  \E fault \in {Nil} \cup FaultSignals :
    LET dbCategories == GetAllCategories(categories)
        calls == << "GetAllCategories" >>
    IN /\ pg.pc = "idle"
       /\ resp' =
            IF fault # Nil
            THEN Failed("GetCategories", ClassifyCategoriesError(fault), fault,
                        IF ClassifyCategoriesError(fault) = StatusServiceUnavailable
                        THEN "Database service is temporarily unavailable: "
                        ELSE "Unable to retrieve categories at this time: ",
                        ZeroIn, calls)
            ELSE [Outcome("GetCategories", StatusOK, Nil, "", ZeroIn, calls)
                    EXCEPT !.categories =
                      [i \in 1..Len(dbCategories) |-> ToAPICategory(dbCategories[i])]]
       /\ categories' = AfterSelect(categories)
       /\ UNCHANGED << products, pg >>

CreateMessage(status) ==
  CASE status = StatusConflict -> "Category with this code already exists"
    [] status = StatusServiceUnavailable ->
         "Database service is temporarily unavailable: "
    [] OTHER -> "Unable to create category: "

CreateCategory(json, code, name) ==
  LET in == [ZeroIn EXCEPT !.json = json, !.code = code, !.name = name]
      invalid == ValidateCreate(code, name)
      dup == CodeTaken(categories, code)
      calls == << "CreateCategory" >>
  IN /\ pg.pc = "idle"
     \* a body that does not decode leaves no field to read
     /\ ~json => (code = "" /\ name = "")
     /\ \/ /\ ~json
           /\ resp' = Outcome("CreateCategory", StatusBadRequest, Nil,
                              "Invalid JSON format", in, << >>)
           /\ UNCHANGED categories
        \/ /\ json
           /\ invalid # ""
           /\ resp' = Outcome("CreateCategory", StatusBadRequest, Nil, invalid,
                              in, << >>)
           /\ UNCHANGED categories
        \/ /\ json
           /\ invalid = ""
           /\ \E err \in FaultSignals \cup (IF dup THEN UniqueSignals ELSE {Nil}) :
                IF err # Nil
                THEN /\ resp' = [Failed("CreateCategory",
                                        ClassifyCreateError(err), err,
                                        CreateMessage(ClassifyCreateError(err)),
                                        in, calls) EXCEPT !.dup = dup]
                     /\ UNCHANGED categories
                ELSE /\ categories' = InsertCategory(categories, code, name)
                     /\ resp' = [Outcome("CreateCategory", StatusOK, Nil, "",
                                         in, calls)
                                   EXCEPT !.category = [ID |-> 0, Code |-> code,
                                                        Name |-> name]]
     /\ UNCHANGED << products, pg >>

\* ------------------------------------------- paginated lists (the service)
\* first store read of GetProductsPaginated
PaginatedPage(offset, limit) ==
  LET in == [ZeroIn EXCEPT !.offset = offset, !.limit = limit]
      calls == << "GetProductsPaginated" >>
  IN /\ pg.pc = "idle"
     /\ \E fault \in {Nil} \cup PageFaultSignals :
          IF ReturnsOnError(fault)
          THEN /\ resp' = Failed("GetProductsPaginated", 0, fault, "", in, calls)
               /\ UNCHANGED pg
          ELSE /\ pg' = [pc |-> "count", filtered |-> FALSE, in |-> in,
                         page |-> IF fault # Nil THEN << >>
                                  ELSE GetProductsPaginated(products, categories,
                                                            offset, limit),
                         changed |-> FALSE, err |-> fault]
               /\ resp' = NoResp
     /\ products' = AfterSelect(products)
     /\ UNCHANGED categories

\* second store read of GetProductsPaginated, and the mapping
PaginatedCount ==
  LET calls == << "GetProductsPaginated", "GetProductsCount" >>
  IN /\ pg.pc = "count"
     /\ ~pg.filtered
     /\ \E fault \in {Nil} \cup FaultSignals :
          LET r == ListResult(pg.page, GetProductsCount(products), fault)
          IN resp' =
               [Outcome("GetProductsPaginated", 0, r.err, "", pg.in, calls)
                  EXCEPT !.products = r.products,
                         !.total = r.total,
                         !.stored = IF fault # Nil THEN << >> ELSE pg.page,
                         !.changed = fault = Nil /\ pg.changed,
                         !.fault = IF pg.err # Nil THEN pg.err ELSE fault,
                         !.failedAt = IF pg.err # Nil THEN 1
                                      ELSE IF fault # Nil THEN 2 ELSE 0]
     /\ pg' = Idle
     /\ products' = AfterSelect(products)
     /\ UNCHANGED categories

\* first store read of GetProductsPaginatedWithFilters
FilteredPage(offset, limit, category, priceLt) ==
  LET in == [ZeroIn EXCEPT !.offset = offset, !.limit = limit,
                           !.category = category, !.priceLt = priceLt]
      calls == << "GetProductsPaginatedWithFilters" >>
  IN /\ pg.pc = "idle"
     /\ \E fault \in {Nil} \cup PageFaultSignals :
          IF ReturnsOnError(fault)
          THEN /\ resp' = Failed("GetProductsPaginatedWithFilters", 0, fault,
                                 "", in, calls)
               /\ UNCHANGED pg
          ELSE /\ pg' = [pc |-> "count", filtered |-> TRUE, in |-> in,
                         page |-> IF fault # Nil THEN << >>
                                  ELSE GetProductsPaginatedWithFilters(
                                         products, categories, offset, limit,
                                         category, priceLt),
                         changed |-> FALSE, err |-> fault]
               /\ resp' = NoResp
     /\ products' = AfterSelect(products)
     /\ UNCHANGED categories

\* second store read of GetProductsPaginatedWithFilters, and the mapping
FilteredCount ==
  LET calls == << "GetProductsPaginatedWithFilters",
                  "GetProductsCountWithFilters" >>
  IN /\ pg.pc = "count"
     /\ pg.filtered
     /\ \E fault \in {Nil} \cup FaultSignals :
          LET r == ListResult(pg.page,
                              GetProductsCountWithFilters(
                                products, categories, pg.in.category,
                                pg.in.priceLt),
                              fault)
          IN resp' =
               [Outcome("GetProductsPaginatedWithFilters", 0, r.err, "", pg.in,
                        calls)
                  EXCEPT !.products = r.products,
                         !.total = r.total,
                         !.stored = IF fault # Nil THEN << >> ELSE pg.page,
                         !.changed = fault = Nil /\ pg.changed,
                         !.fault = IF pg.err # Nil THEN pg.err ELSE fault,
                         !.failedAt = IF pg.err # Nil THEN 1
                                      ELSE IF fault # Nil THEN 2 ELSE 0]
     /\ pg' = Idle
     /\ products' = AfterSelect(products)
     /\ UNCHANGED categories

\* ------------------------------------------------------------------ Next
Next ==
  \/ \E row \in ProductRows : StoreInsertProduct(row)
  \/ \E i \in 1..MaxProducts + 1 : StoreDeleteProduct(i)
  \/ GetCatalog
  \/ \E code \in RequestCodes : GetProductDetails(code)
  \/ GetCategories
  \/ \E json \in BOOLEAN, code \in CreateCodes, name \in CreateNames :
       CreateCategory(json, code, name)
  \/ \E offset \in 0..MaxOffset, limit \in 1..MaxLimit :
       PaginatedPage(offset, limit)
  \/ PaginatedCount
  \/ \E offset \in 0..MaxOffset, limit \in 1..MaxLimit,
        category \in CategoryFilters, priceLt \in PriceFilters :
       FilteredPage(offset, limit, category, priceLt)
  \/ FilteredCount

Spec == Init /\ [][Next]_vars

\* ================================================================ claims

\* C1: in every product returned by GetProductByCode, a variant whose stored
\* price is absent or zero (at any scale) carries the product's price, and a
\* variant whose stored price is not zero carries that price.
C1_EffectivePrice ==
  (resp.op = "GetProductDetails" /\ resp.status = StatusOK) =>
    LET row == CHOOSE r \in Range(products) : r.Code = resp.in.code
    IN /\ Len(resp.details.Variants) = Len(row.Variants)
       /\ \A i \in 1..Len(row.Variants) :
            /\ row.Variants[i].Price.coef = 0 =>
                 resp.details.Variants[i].Price = resp.details.Price
            /\ row.Variants[i].Price.coef # 0 =>
                 resp.details.Variants[i].Price =
                   InexactFloat64(row.Variants[i].Price)

C1_Witness ==
  /\ resp.op = "GetProductDetails"
  /\ resp.status = StatusOK
  /\ resp.in.code = "PROD002"
  /\ resp.details.Variants[1].Price = 3000
  /\ resp.details.Variants[2].Price = 3499

\* C2 (as stated): whenever no stored product has the requested code and the
\* store surfaces a not-found failure, GetProductDetails answers 404.
C2_Original ==
  ( /\ resp.op = "GetProductDetails"
    /\ \A r \in Range(products) : r.Code # resp.in.code
    /\ resp.err \in NotFoundSignals ) =>
    resp.status = StatusNotFound

\* C2 (amended): for a non-empty code that no stored product has exactly, the
\* request never succeeds; it answers 404 when the store surfaces the
\* gorm.ErrRecordNotFound value itself, and 500 when the not-found failure is
\* any other error value, even one whose text is "record not found".
C2_NotFoundSentinel ==
  ( /\ resp.op = "GetProductDetails"
    /\ resp.in.code # ""
    /\ \A r \in Range(products) : r.Code # resp.in.code ) =>
    /\ resp.status # StatusOK
    /\ resp.err = ErrRecordNotFound => resp.status = StatusNotFound
    /\ (resp.err \in NotFoundSignals /\ resp.err # ErrRecordNotFound) =>
         resp.status = StatusInternalServerError

C2_Witness ==
  /\ resp.op = "GetProductDetails"
  /\ resp.in.code = "prod001"
  /\ \E r \in Range(products) : r.Code = "PROD001"
  /\ \A r \in Range(products) : r.Code # "prod001"
  /\ resp.err = ErrRecordNotFound
  /\ resp.status = StatusNotFound

\* C3: a create with non-empty code and name against a store that already
\* holds the code does not succeed, and whichever uniqueness-violation signal
\* the store emits, the answer is 409 Conflict, never 500.
C3_DuplicateIsConflict ==
  ( /\ resp.op = "CreateCategory"
    /\ resp.in.json /\ resp.in.code # "" /\ resp.in.name # ""
    /\ resp.dup ) =>
    /\ resp.status # StatusOK
    /\ resp.err \in UniqueSignals =>
         /\ resp.status = StatusConflict
         /\ resp.message = "Category with this code already exists"

C3_Witness ==
  /\ resp.op = "CreateCategory"
  /\ resp.in.code = "CATGORY001"
  /\ resp.in.name = "Electronics"
  /\ resp.dup
  /\ resp.err = UniquePostgres
  /\ resp.status = StatusConflict

\* C4: in GetCatalog, GetProductDetails, GetCategories and CreateCategory a
\* store call that ends in the connectivity failure is answered 503, never 500.
C4_UnreachableIsUnavailable ==
  ( /\ resp.op \in {"GetCatalog", "GetProductDetails", "GetCategories",
                    "CreateCategory"}
    /\ resp.err = ConnectionFailed ) =>
    /\ resp.status = StatusServiceUnavailable
    /\ resp.message = "Database service is temporarily unavailable: "

C4_Witness ==
  /\ resp.op = "GetCatalog"
  /\ resp.err = ConnectionFailed
  /\ resp.status = StatusServiceUnavailable
  /\ Len(products) > 0

\* C5: CreateCategory checks the code before the name: an empty code is
\* answered "Code is required" whatever the name, "Name is required" is
\* answered exactly when the code is not empty and the name is.
C5_CodeBeforeName ==
  (resp.op = "CreateCategory" /\ resp.in.json) =>
    /\ resp.in.code = "" =>
         resp.status = StatusBadRequest /\ resp.message = "Code is required"
    /\ resp.message = "Name is required" <=>
         (resp.in.code # "" /\ resp.in.name = "")
    /\ resp.message = "Name is required" => resp.status = StatusBadRequest

C5_Witness ==
  /\ resp.op = "CreateCategory"
  /\ resp.in.json
  /\ resp.in.code = ""
  /\ resp.in.name = ""
  /\ resp.message = "Code is required"

\* C6: a filtered page asked with a price bound holds only products priced
\* strictly below the bound.
C6_PriceStrictlyBelow ==
  ( /\ resp.op = "GetProductsPaginatedWithFilters"
    /\ resp.err = Nil
    /\ resp.in.priceLt # NilFloat ) =>
    \A i \in 1..Len(resp.products) :
      resp.products[i].Price < resp.in.priceLt[1]

C6_Witness ==
  /\ resp.op = "GetProductsPaginatedWithFilters"
  /\ resp.err = Nil
  /\ resp.in.priceLt = <<3000>>
  /\ resp.in.category = ""
  /\ resp.in.offset = 0
  /\ ~resp.changed
  /\ Len(resp.products) = 1
  /\ \E r \in Range(products) : r.Code = "PROD002"

\* C7: a filtered page asked with a category holds only products whose
\* category name, not code, is that value; a product of another category
\* or of none is not in it.
C7_CategoryByName ==
  ( /\ resp.op = "GetProductsPaginatedWithFilters"
    /\ resp.err = Nil
    /\ resp.in.category # "" ) =>
    \A i \in 1..Len(resp.products) :
      resp.products[i].Category = resp.in.category

C7_Witness ==
  /\ resp.op = "GetProductsPaginatedWithFilters"
  /\ resp.err = Nil
  /\ resp.in.category = "Shoes"
  /\ resp.in.priceLt = NilFloat
  /\ resp.in.offset = 0
  /\ ~resp.changed
  /\ Len(resp.products) = 1
  /\ \E r \in Range(products) : r.CategoryID = 0

\* C8: with no store write between the two reads, the total of a filtered
\* list is the number of stored products that satisfy every filter field that
\* is present, the page holds only such products, and with no field present
\* the total is the number of all products.
C8_TotalMatchesFilter ==
  ( /\ resp.op = "GetProductsPaginatedWithFilters"
    /\ resp.err = Nil
    /\ ~resp.changed ) =>
    LET matching ==
          { r \in Range(products) :
              /\ \/ resp.in.category = ""
                 \/ \E c \in Range(categories) :
                      c.ID = r.CategoryID /\ c.Name = resp.in.category
              /\ \/ resp.in.priceLt = NilFloat
                 \/ r.Price.coef * Pow10(2 + r.Price.exp) < resp.in.priceLt[1] }
    IN /\ resp.total = Cardinality(matching)
       /\ \A i \in 1..Len(resp.products) :
            \E r \in matching : r.Code = resp.products[i].Code
       /\ (resp.in.category = "" /\ resp.in.priceLt = NilFloat) =>
            resp.total = Len(products)

C8_Witness ==
  /\ resp.op = "GetProductsPaginatedWithFilters"
  /\ resp.err = Nil
  /\ ~resp.changed
  /\ resp.in.category = "Shoes"
  /\ resp.in.priceLt = <<3000>>
  /\ resp.total = 1
  /\ Len(products) = 2
  /\ \A r \in Range(products) : r.CategoryID = 2

\* C9: GetProducts on a store that does not fail returns one record per
\* stored product, in the store's order, with the product's code, price and
\* category name; for an empty store that is the empty list and no failure.
C9_ListAll ==
  (resp.op = "GetCatalog" /\ resp.err = Nil) =>
    /\ resp.status = StatusOK
    /\ Len(resp.products) = Len(products)
    /\ resp.total = Len(products)
    /\ \A i \in 1..Len(products) :
         /\ resp.products[i].Code = products[i].Code
         /\ resp.products[i].Price =
              products[i].Price.coef * Pow10(2 + products[i].Price.exp)
         /\ \/ \E c \in Range(categories) :
                 /\ c.ID = products[i].CategoryID
                 /\ resp.products[i].Category = c.Name
            \/ /\ products[i].CategoryID = 0
               /\ resp.products[i].Category = ""

C9_Witness ==
  /\ resp.op = "GetCatalog"
  /\ resp.status = StatusOK
  /\ Len(resp.products) = 2
  /\ resp.products[1].Code = "prod001"
  /\ resp.products[2].Code = "PROD003"

\* C10: GetProductsPaginated returns as total the number of all stored
\* products, whatever the offset and limit, and a page of at most limit
\* products.
C10_PaginatedTotal ==
  (resp.op = "GetProductsPaginated" /\ resp.err = Nil) =>
    /\ resp.total = Len(products)
    /\ Len(resp.products) <= resp.in.limit

C10_Witness ==
  /\ resp.op = "GetProductsPaginated"
  /\ resp.err = Nil
  /\ resp.in.offset = 0
  /\ resp.in.limit = 1
  /\ resp.total = 2
  /\ Len(resp.products) = 1

\* C11: GetProductByCode returns one variant per stored variant, in the
\* order the store returned them, each with the stored name and SKU.
C11_VariantOrder ==
  (resp.op = "GetProductDetails" /\ resp.status = StatusOK) =>
    LET row == CHOOSE r \in Range(products) : r.Code = resp.in.code
    IN /\ Len(resp.details.Variants) = Len(row.Variants)
       /\ \A i \in 1..Len(row.Variants) :
            /\ resp.details.Variants[i].Name = row.Variants[i].Name
            /\ resp.details.Variants[i].SKU = row.Variants[i].SKU

C11_Witness ==
  /\ resp.op = "GetProductDetails"
  /\ resp.status = StatusOK
  /\ Len(resp.details.Variants) = 2
  /\ resp.details.Variants[1].SKU = "PROD002-R"
  /\ resp.details.Variants[2].SKU = "PROD002-B"

\* C12: when a store read of GetProducts, GetProductsPaginated,
\* GetProductsPaginatedWithFilters or GetProductByCode fails, the operation
\* returns that failure, no product and total 0, also when only the count
\* read failed.
C12_NoFailureSwallowed ==
  ( /\ resp.op \in {"GetCatalog", "GetProductsPaginated",
                    "GetProductsPaginatedWithFilters", "GetProductDetails"}
    /\ resp.fault # Nil ) =>
    /\ resp.err = resp.fault
    /\ resp.products = << >>
    /\ resp.total = 0
    /\ resp.details = ZeroDetails

C12_Witness ==
  /\ resp.op = "GetProductsPaginatedWithFilters"
  /\ resp.failedAt = 2
  /\ resp.fault = OtherError
  /\ resp.err = OtherError
  /\ resp.in.category = ""
  /\ resp.in.priceLt = NilFloat
  /\ resp.in.offset = 0
  /\ Len(products) = 2

\* C13: one invocation makes at most two store calls for a paginated list
\* and at most one for any other operation, never the same call twice, and
\* none after a call that failed.
C13_NoRetry ==
  resp.op # "none" =>
    /\ Len(resp.calls) <=
         (IF resp.op \in {"GetProductsPaginated",
                          "GetProductsPaginatedWithFilters"} THEN 2 ELSE 1)
    /\ \A i, j \in 1..Len(resp.calls) : i # j => resp.calls[i] # resp.calls[j]
    /\ resp.failedAt # 0 => Len(resp.calls) = resp.failedAt

C13_Witness ==
  /\ resp.op = "GetProductsPaginated"
  /\ resp.failedAt = 1
  /\ resp.calls = << "GetProductsPaginated" >>
  /\ resp.err = ConnectionFailed

\* C14: no step removes or alters a stored category; the table changes only
\* by a successful CreateCategory, which appends the requested code and name.
C14_CategoriesOnlyGrow ==
  [][ /\ Len(categories') >= Len(categories)
      /\ \A i \in 1..Len(categories) : categories'[i] = categories[i]
      /\ categories' # categories =>
           /\ resp'.op = "CreateCategory"
           /\ resp'.status = StatusOK
           /\ Len(categories') = Len(categories) + 1
           /\ categories'[Len(categories')].Code = resp'.in.code
           /\ categories'[Len(categories')].Name = resp'.in.name ]_vars

C14_Witness ==
  /\ resp.op = "CreateCategory"
  /\ resp.status = StatusOK
  /\ Len(categories) = 4
  /\ categories[4].Code = "CATGORY004"
  /\ categories[1].Name = "Clothing"

\* C15: a paginated list reads the page first and the count second; with no
\* store write between the two reads the page holds
\* min(limit, max(0, total - offset)) products.  (The witness is a list whose
\* total differs from the rows its page was drawn from, after a write
\* between the reads.)
C15_PageThenCount ==
  ( /\ resp.op \in {"GetProductsPaginated", "GetProductsPaginatedWithFilters"}
    /\ resp.err = Nil ) =>
    /\ Len(resp.calls) = 2
    /\ resp.calls[1] = resp.op
    /\ resp.calls[2] \in {"GetProductsCount", "GetProductsCountWithFilters"}
    /\ ~resp.changed =>
         Len(resp.products) =
           Min(resp.in.limit,
               IF resp.total > resp.in.offset
               THEN resp.total - resp.in.offset ELSE 0)

C15_Witness ==
  /\ resp.op = "GetProductsPaginated"
  /\ resp.err = Nil
  /\ resp.changed
  /\ resp.in.offset = 0
  /\ Len(resp.products) = 1
  /\ resp.total = 0

\* C16: a CreateCategory whose body does not decode, or whose code or name
\* is empty, makes no store call and leaves the categories as they were.
C16_InvalidCreateNoInsert ==
  [][ ( /\ resp'.op = "CreateCategory"
        /\ (~resp'.in.json \/ resp'.in.code = "" \/ resp'.in.name = "") ) =>
        /\ categories' = categories
        /\ resp'.calls = << >>
        /\ resp'.status = StatusBadRequest ]_vars

C16_Witness ==
  /\ resp.op = "CreateCategory"
  /\ resp.in.json
  /\ resp.in.code = "CATGORY004"
  /\ resp.in.name = ""
  /\ resp.status = StatusBadRequest
  /\ \A c \in Range(categories) : c.Code # "CATGORY004"

\* C17: the categories never hold one code twice; a create for a code the
\* table already holds does not succeed and leaves the table, and so the
\* first category's name, as it was.
C17_UniqueCodes ==
  [][ /\ \A i, j \in 1..Len(categories') :
           i # j => categories'[i].Code # categories'[j].Code
      /\ ( /\ resp'.op = "CreateCategory"
           /\ resp'.in.json /\ resp'.in.code # "" /\ resp'.in.name # ""
           /\ \E c \in Range(categories) : c.Code = resp'.in.code ) =>
           /\ resp'.status # StatusOK
           /\ categories' = categories ]_vars

C17_Witness ==
  /\ resp.op = "CreateCategory"
  /\ resp.in.code = "CATGORY004"
  /\ resp.status = StatusConflict
  /\ Len(categories) = 4
  /\ categories[4].Code = "CATGORY004"

\* C18: with no store write between the reads, the i-th product of the
\* filtered page at an offset is the (offset + i)-th matching product in
\* ascending code order, and the page is empty at an offset at or beyond the
\* total: the pages at offsets 0, limit, 2*limit, ... are disjoint and list
\* every matching product once, in code order.
C18_PagesPartition ==
  ( /\ resp.op = "GetProductsPaginatedWithFilters"
    /\ resp.err = Nil
    /\ ~resp.changed ) =>
    LET matching ==
          { r \in Range(products) :
              /\ \/ resp.in.category = ""
                 \/ \E c \in Range(categories) :
                      c.ID = r.CategoryID /\ c.Name = resp.in.category
              /\ \/ resp.in.priceLt = NilFloat
                 \/ r.Price.coef * Pow10(2 + r.Price.exp) < resp.in.priceLt[1] }
        left == Cardinality(matching) - resp.in.offset
    IN /\ Len(resp.products) =
            (IF left <= 0 THEN 0
             ELSE IF left < resp.in.limit THEN left ELSE resp.in.limit)
       /\ \A i \in 1..Len(resp.products) :
            \E r \in matching :
              /\ r.Code = resp.products[i].Code
              /\ Cardinality({m \in matching :
                               CodeRank(m.Code) < CodeRank(r.Code)})
                   = resp.in.offset + i - 1

C18_Witness ==
  /\ resp.op = "GetProductsPaginatedWithFilters"
  /\ resp.err = Nil
  /\ ~resp.changed
  /\ resp.in.category = "Shoes"
  /\ resp.in.offset = 1
  /\ resp.in.limit = 1
  /\ Len(products) = 2
  /\ products[1].Code = "prod001"
  /\ products[2].Code = "PROD002"
  /\ Len(resp.products) = 1
  /\ resp.products[1].Code = "prod001"

\* C19: a step of a read operation, failed or not, leaves the products and
\* the categories as they were, and a read repeated with the same input
\* right after a read that did not fail returns the same outcome.
C19_ReadsLeaveStore ==
  [][ ( \/ resp'.op \in {"GetCatalog", "GetProductsPaginated",
                         "GetProductsPaginatedWithFilters",
                         "GetProductDetails", "GetCategories"}
        \/ (pg.pc = "idle" /\ pg'.pc = "count") ) =>
        /\ products' = products
        /\ categories' = categories
        /\ ( /\ resp.op = resp'.op
             /\ resp.in = resp'.in
             /\ resp.fault = Nil
             /\ resp'.fault = Nil ) => resp' = resp ]_vars

C19_Witness ==
  /\ resp.op = "GetProductDetails"
  /\ resp.fault = ConnectionFailed
  /\ resp.in.code = "PROD001"
  /\ Len(products) = 2
  /\ \E r \in Range(products) : r.Code = "PROD001"

====
